---- MODULE Spec2Model ----
(***************************************************************************)
(* Model of src/src/libs/SidebarUtils.ts: the sidebar (LHN) ordering       *)
(* function getOrderedReportIDs, the option-row projector getOptionData,   *)
(* and the module-level side index visibleReportActionItems maintained by  *)
(* the Onyx subscription callback.                                         *)
(*                                                                         *)
(* Encoding of JavaScript values                                           *)
(*   - identifiers (reportID, currentReportId) are TLA+ strings; a missing *)
(*     reportID is Undefined, a null currentReportId is Null;              *)
(*   - a date string is the sequence of its code units, the empty string   *)
(*     is << >>, and a missing date is NoStr (no real string holds the     *)
(*     code unit -1);                                                      *)
(*   - a display name is its collation rank under localeCompare, with 0    *)
(*     for the empty string (the only falsy name);                         *)
(*   - the answers of the collaborators that are called with a report      *)
(*     (ReportUtils.*, OptionsListUtils.*, hasValidDraftComment) are       *)
(*     fields of the report snapshot, named after the function called.     *)
(***************************************************************************)
EXTENDS Integers, Sequences, FiniteSets, TLC

VARIABLES
    allReports,               \* collection key -> report snapshot (or NullReport)
    currentReportId,          \* argument currentReportId
    priorityMode,             \* argument priorityMode
    currentPolicyID,          \* argument currentPolicyID ('' when not given)
    policyMemberAccountIDs,   \* argument policyMemberAccountIDs ([] when not given)
    sortChoice,               \* the engine's order for an inconsistent comparator
    sortedMiniReports,        \* the concatenated MiniReport array of line 198
    LHNReports,               \* the value returned by getOrderedReportIDs
    returned,                 \* whether getOrderedReportIDs has returned
    visibleReportActionItems, \* the side index of line 25
    optionArgs,               \* the arguments of the last getOptionData call
    lastAction,               \* the side-index entry the last getOptionData call read
    optionData                \* the value returned by the last getOptionData call

orderVars == <<allReports, currentReportId, priorityMode, currentPolicyID,
               policyMemberAccountIDs, sortChoice, sortedMiniReports, LHNReports, returned>>
optionVars == <<visibleReportActionItems, optionArgs, lastAction, optionData>>
vars == <<allReports, currentReportId, priorityMode, currentPolicyID,
          policyMemberAccountIDs, sortChoice, sortedMiniReports, LHNReports, returned,
          visibleReportActionItems, optionArgs, lastAction, optionData>>

(***************************************************************************)
(* Bounds                                                                  *)
(***************************************************************************)
MaxReports == 3          \* collection keys in allReports
MaxActions == 2          \* report actions delivered by one callback

Keys == 1..MaxReports

(***************************************************************************)
(* JavaScript values                                                       *)
(***************************************************************************)
Undefined == "undefined"
Null == "null"
NullReport == [isNull |-> TRUE]
NoStr == <<-1>>
EmptyStr == << >>
SENTINEL == "-1"
HIDDEN == "hidden"
ALWAYS == "always"
GSD == "gsd"
DEFAULT_MODE == "default"
SmartscanFailure == "iou.error.genericSmartscanFailureMessage"
OtherError == "report.genericAddCommentFailureMessage"

\* JavaScript truthiness of an optional string
Truthy(s) == s # NoStr /\ s # EmptyStr

\* a < b on JavaScript strings: lexicographic on code units, a proper prefix first
StrLess(a, b) ==
    \E i \in 1..(Len(b)) :
        /\ \A j \in 1..(i - 1) : j <= Len(a) /\ a[j] = b[j]
        /\ \/ i > Len(a)
           \/ (i <= Len(a) /\ a[i] < b[i])

compareStringDatesDescending(a, b) ==
    IF StrLess(a, b) THEN 1 ELSE IF StrLess(b, a) THEN -1 ELSE 0

compareStringDates(a, b) ==
    IF StrLess(a, b) THEN -1 ELSE IF StrLess(b, a) THEN 1 ELSE 0

\* localeCompare on display names: the sign of the difference of collation ranks
localeCompare(a, b) ==
    IF a < b THEN -1 ELSE IF a > b THEN 1 ELSE 0

(***************************************************************************)
(* The comparators handed to Array.prototype.sort                          *)
(***************************************************************************)
compareDisplayNames(a, b) ==
    IF a.displayName # 0 /\ b.displayName # 0
    THEN localeCompare(a.displayName, b.displayName)
    ELSE 0

compareDates(a, b) ==
    IF Truthy(a.lastVisibleActionCreated) /\ Truthy(b.lastVisibleActionCreated)
    THEN compareStringDates(b.lastVisibleActionCreated, a.lastVisibleActionCreated)
    ELSE 0

compareDatesThenDisplayNames(a, b) ==
    IF compareDates(a, b) # 0 THEN compareDates(a, b) ELSE compareDisplayNames(a, b)

BY_NAME == "displayName"
BY_DATE_THEN_NAME == "dateThenDisplayName"
BY_DATE == "date"

Compare(kind, a, b) ==
    CASE kind = BY_NAME -> compareDisplayNames(a, b)
      [] kind = BY_DATE_THEN_NAME -> compareDatesThenDisplayNames(a, b)
      [] kind = BY_DATE -> compareDates(a, b)

(***************************************************************************)
(* Array.prototype.sort (ECMAScript): with a consistent comparator the     *)
(* result is the stable sort; with an inconsistent one the order is        *)
(* implementation-defined, here the order the engine's choice gives.       *)
(***************************************************************************)
ConsistentComparator(s, kind) ==
    \A i, j, k \in 1..Len(s) :
        /\ Compare(kind, s[i], s[i]) = 0
        /\ (Compare(kind, s[i], s[j]) = 0 => Compare(kind, s[j], s[i]) = 0)
        /\ (Compare(kind, s[i], s[j]) = 0 /\ Compare(kind, s[j], s[k]) = 0
                => Compare(kind, s[i], s[k]) = 0)
        /\ (Compare(kind, s[i], s[j]) < 0 /\ Compare(kind, s[j], s[k]) < 0
                => Compare(kind, s[i], s[k]) < 0)
        /\ (Compare(kind, s[i], s[j]) > 0 /\ Compare(kind, s[j], s[k]) > 0
                => Compare(kind, s[i], s[k]) > 0)

StableSort(s, kind) ==
    LET n == Len(s)
        place(i) == 1 + Cardinality({j \in 1..n :
                          \/ Compare(kind, s[j], s[i]) < 0
                          \/ (Compare(kind, s[j], s[i]) = 0 /\ j < i)})
    IN  [p \in 1..n |-> s[CHOOSE i \in 1..n : place(i) = p]]

\* the elements of s in the order their keys have in the sequence choice
EngineOrder(s, choice) ==
    LET n == Len(s)
        pos(m) == CHOOSE q \in 1..Len(choice) : choice[q] = m.key
        place(i) == 1 + Cardinality({j \in 1..n : pos(s[j]) < pos(s[i])})
    IN  [p \in 1..n |-> s[CHOOSE i \in 1..n : place(i) = p]]

sort(s, kind, choice) ==
    IF ConsistentComparator(s, kind) THEN StableSort(s, kind) ELSE EngineOrder(s, choice)

(***************************************************************************)
(* getOrderedReportIDs, step 1: filtering (lines 85-127)                   *)
(***************************************************************************)
isInFocusMode(mode) == mode = GSD

isInDefaultMode(mode) == ~isInFocusMode(mode)

isHidden(report) == report.notificationPreference = HIDDEN

isFocused(report, cur) == report.reportID = cur

hasErrorsOtherThanFailedReceipt(report) ==
    \/ report.shouldShowViolations
    \/ \E error \in report.getAllReportErrors : error # SmartscanFailure

shouldOverrideHiddenWithoutPinned(report, cur) ==
    \/ hasErrorsOtherThanFailedReceipt(report)
    \/ isFocused(report, cur)
    \/ report.isSystemChat

shouldOverrideHidden(report, cur) ==
    \/ hasErrorsOtherThanFailedReceipt(report)
    \/ isFocused(report, cur)
    \/ report.isSystemChat
    \/ report.isPinned

shouldReportBeInOptionListIgnored(report) == TRUE

\* the answer of ReportUtils.shouldReportBeInOptionList at line 114
shouldReportBeInOptionList(report) == report.shouldReportBeInOptionList

PUSH_WITH_FLAG == "pushWithErrorFlag"
PUSH == "push"
DROP == "drop"

dispositionHiddenNotChecked(report, cur) ==
    IF report = NullReport THEN DROP
    ELSE IF report.isOneTransactionThread THEN DROP
    ELSE IF hasErrorsOtherThanFailedReceipt(report) THEN PUSH_WITH_FLAG
    ELSE IF shouldReportBeInOptionList(report) THEN PUSH
    ELSE DROP

\* what one iteration of the forEach of line 86 does with a report
disposition(report, cur) ==
    IF report = NullReport THEN DROP
    ELSE IF report.isOneTransactionThread THEN DROP
    ELSE IF hasErrorsOtherThanFailedReceipt(report) THEN PUSH_WITH_FLAG
    ELSE IF isHidden(report) /\ ~shouldOverrideHidden(report, cur) THEN DROP
    ELSE IF shouldReportBeInOptionList(report) THEN PUSH
    ELSE DROP

\* an element of reportsToDisplay: the report, the flag added at line 103,
\* and the collection key it was read from (the object's identity)
displayEntry(reports, k, cur) ==
    [key |-> k,
     report |-> reports[k],
     hasErrorsOtherThanFailedReceipt |-> (disposition(reports[k], cur) = PUSH_WITH_FLAG)]

\* Object.values(allReports) walked in key order
filteredReports(reports, cur) ==
    LET all == [k \in 1..Len(reports) |-> displayEntry(reports, k, cur)]
        kept(e) == disposition(e.report, cur) # DROP
    IN  SelectSeq(all, kept)

(***************************************************************************)
(* The workspace restriction (lines 145-149)                               *)
(***************************************************************************)
workspaceScopeSupplied(pol, members) == pol # "" \/ Len(members) > 0

restrictToWorkspaceFocusedNotKept(entries, cur, pol, members) ==
    LET kept(e) == e.report.doesReportBelongToWorkspace
    IN  IF workspaceScopeSupplied(pol, members) THEN SelectSeq(entries, kept) ELSE entries

restrictToWorkspace(entries, cur, pol, members) ==
    LET kept(e) == e.report.reportID = cur \/ e.report.doesReportBelongToWorkspace
    IN  IF workspaceScopeSupplied(pol, members) THEN SelectSeq(entries, kept) ELSE entries

reportsToDisplay(reports, cur, pol, members) ==
    restrictToWorkspace(filteredReports(reports, cur), cur, pol, members)

(***************************************************************************)
(* Step 2: bucketing (lines 151-172)                                       *)
(***************************************************************************)
PINNED_AND_GBR == "pinnedAndGBRReports"
ERRORS == "errorReports"
DRAFTS == "draftReports"
NON_ARCHIVED == "nonArchivedReports"
ARCHIVED == "archivedReports"

miniReport(e) ==
    [key |-> e.key,
     reportID |-> e.report.reportID,
     displayName |-> e.report.getReportName,
     lastVisibleActionCreated |-> e.report.lastVisibleActionCreated]

bucketOfPinnedNotFirst(e) ==
    IF e.report.hasValidDraftComment THEN DRAFTS
    ELSE IF e.report.isArchivedRoom THEN ARCHIVED
    ELSE IF e.hasErrorsOtherThanFailedReceipt THEN ERRORS
    ELSE IF e.report.isPinned \/ e.report.requiresAttentionFromCurrentUser THEN PINNED_AND_GBR
    ELSE NON_ARCHIVED

bucketOf(e) ==
    IF e.report.isPinned \/ e.report.requiresAttentionFromCurrentUser THEN PINNED_AND_GBR
    ELSE IF e.report.hasValidDraftComment THEN DRAFTS
    ELSE IF e.report.isArchivedRoom THEN ARCHIVED
    ELSE IF e.hasErrorsOtherThanFailedReceipt THEN ERRORS
    ELSE NON_ARCHIVED

bucket(entries, name) ==
    LET all == [i \in 1..Len(entries) |-> miniReport(entries[i])]
        in(i) == bucketOf(entries[i]) = name
        idx == SelectSeq([i \in 1..Len(entries) |-> i], in)
    IN  [i \in 1..Len(idx) |-> all[idx[i]]]

(***************************************************************************)
(* Step 3: sorting (lines 175-193)                                         *)
(***************************************************************************)
comparatorOfDateInFocusMode(name, mode) ==
    IF name \in {PINNED_AND_GBR, ERRORS, DRAFTS} THEN BY_NAME
    ELSE IF name = NON_ARCHIVED THEN BY_DATE_THEN_NAME
    ELSE BY_DATE

comparatorOfArchivedByDateThenName(name, mode) ==
    IF name \in {PINNED_AND_GBR, ERRORS, DRAFTS} THEN BY_NAME
    ELSE IF isInDefaultMode(mode) THEN BY_DATE_THEN_NAME
    ELSE BY_NAME

comparatorOf(name, mode) ==
    IF name \in {PINNED_AND_GBR, ERRORS, DRAFTS} THEN BY_NAME
    ELSE IF isInDefaultMode(mode)
         THEN (IF name = NON_ARCHIVED THEN BY_DATE_THEN_NAME ELSE BY_DATE)
         ELSE BY_NAME

sortedBucket(entries, name, mode, choice) ==
    sort(bucket(entries, name), comparatorOf(name, mode), choice)

\* whether every sort of the call is given a consistent comparator
AllComparatorsConsistent(entries, mode) ==
    \A name \in {PINNED_AND_GBR, ERRORS, DRAFTS, NON_ARCHIVED, ARCHIVED} :
        ConsistentComparator(bucket(entries, name), comparatorOf(name, mode))

(***************************************************************************)
(* Step 4: flattening (line 198)                                           *)
(***************************************************************************)
concatenatedWithoutErrorReports(entries, mode, choice) ==
    sortedBucket(entries, PINNED_AND_GBR, mode, choice)
        \o sortedBucket(entries, DRAFTS, mode, choice)
        \o sortedBucket(entries, NON_ARCHIVED, mode, choice)
        \o sortedBucket(entries, ARCHIVED, mode, choice)

concatenatedDraftsBeforeErrors(entries, mode, choice) ==
    sortedBucket(entries, PINNED_AND_GBR, mode, choice)
        \o sortedBucket(entries, DRAFTS, mode, choice)
        \o sortedBucket(entries, ERRORS, mode, choice)
        \o sortedBucket(entries, NON_ARCHIVED, mode, choice)
        \o sortedBucket(entries, ARCHIVED, mode, choice)

concatenated(entries, mode, choice) ==
    sortedBucket(entries, PINNED_AND_GBR, mode, choice)
        \o sortedBucket(entries, ERRORS, mode, choice)
        \o sortedBucket(entries, DRAFTS, mode, choice)
        \o sortedBucket(entries, NON_ARCHIVED, mode, choice)
        \o sortedBucket(entries, ARCHIVED, mode, choice)

reportIDNoFallback(mini) == mini.reportID

\* report?.reportID ?? '-1'
reportIDOrSentinel(mini) ==
    IF mini.reportID = Undefined THEN SENTINEL ELSE mini.reportID

toReportIDs(minis) == [i \in 1..Len(minis) |-> reportIDOrSentinel(minis[i])]

\* the array of line 198 before the map, for the arguments of a call
orderedMiniReports(reports, cur, mode, pol, members, choice) ==
    concatenated(reportsToDisplay(reports, cur, pol, members), mode, choice)

getOrderedReportIDs(reports, cur, mode, pol, members, choice) ==
    toReportIDs(orderedMiniReports(reports, cur, mode, pol, members, choice))

(***************************************************************************)
(* The side index and its subscription callback (lines 25-44)              *)
(***************************************************************************)
CREATED == "CREATED"
ADD_COMMENT == "ADDCOMMENT"

UndefinedAction == [isUndefined |-> TRUE]
NullActions == [isNull |-> TRUE]
NoPersonText == ""

\* ReportActionsUtils.getSortedReportActions: oldest first
getSortedReportActions(actions) ==
    LET n == Cardinality(actions)
        place(a) == 1 + Cardinality({b \in actions : b.created < a.created})
    IN  [p \in 1..n |-> CHOOSE a \in actions : place(a) = p]

isForDisplay(reportAction) ==
    /\ reportAction.shouldReportActionBeVisibleAsLastAction
    /\ reportAction.actionName # CREATED

reportActionsForDisplay(actions) == SelectSeq(getSortedReportActions(actions), isForDisplay)

\* reportActionsForDisplay[reportActionsForDisplay.length - 1]
lastForDisplay(actions) ==
    LET forDisplay == reportActionsForDisplay(actions)
    IN  IF Len(forDisplay) = 0 THEN UndefinedAction ELSE forDisplay[Len(forDisplay)]

\* CollectionUtils.extractCollectionItemID: the key is modelled by the report
\* identifier it ends with
extractCollectionItemID(key) == key

\* the side index after the callback has run with (actions, key)
callback(index, actions, key) ==
    IF actions = NullActions \/ key = Null
    THEN index
    ELSE [index EXCEPT ![extractCollectionItemID(key)] = lastForDisplay(actions.values)]

(***************************************************************************)
(* getOptionData (lines 206-458); of the fields of the result, those that  *)
(* the properties below read                                               *)
(***************************************************************************)
ERROR == "error"
INFO == "info"
NullDetails == [isNull |-> TRUE]
NullTable == [isNull |-> TRUE]
UndefinedOptionData == [isUndefined |-> TRUE]

\* personalDetails?.[accountID]
personalDetailOf(personalDetails, accountID) ==
    IF personalDetails = NullTable THEN NullDetails
    ELSE IF accountID \in personalDetails.accountIDs
         THEN [displayName |-> "details", accountID |-> accountID]
         ELSE NullDetails

lastActionOfFirstReport(report, index) == index["1"]

\* visibleReportActionItems[report.reportID]
lastActionOf(report, index) ==
    IF report.reportID \in DOMAIN index THEN index[report.reportID] ELSE UndefinedAction

lastActorDetailsEntryFirst(report, personalDetails, index) ==
    LET entry == lastActionOf(report, index)
    IN  IF entry # UndefinedAction /\ entry.personText # NoPersonText
        THEN [displayName |-> entry.personText, accountID |-> report.lastActorAccountID]
        ELSE IF report.lastActorAccountID # 0
             THEN personalDetailOf(personalDetails, report.lastActorAccountID)
             ELSE NullDetails

\* lines 324-334
lastActorDetails(report, personalDetails, index) ==
    LET live == IF report.lastActorAccountID # 0
                THEN personalDetailOf(personalDetails, report.lastActorAccountID)
                ELSE NullDetails
        entry == lastActionOf(report, index)
    IN  IF live # NullDetails THEN live
        ELSE IF entry # UndefinedAction /\ entry.personText # NoPersonText
             THEN [displayName |-> entry.personText,
                   accountID |-> report.lastActorAccountID]
             ELSE NullDetails

\* line 306; the reports considered are neither policy expense chats nor
\* expense reports
hasMultipleParticipants(report) == report.participants > 1 \/ report.isChatRoom

\* the answer of OptionsListUtils.getLastActorDisplayName at line 336: the name
\* of the details it is given, empty without details or for a single participant
getLastActorDisplayName(details, multiple) ==
    IF multiple /\ details # NullDetails THEN details.displayName ELSE ""

\* the answer of ReportActionsUtils.getLastVisibleMessage at line 386: the text
\* of the action it is given, and else what it finds for the report
getLastVisibleMessage(report, entry) ==
    IF entry # UndefinedAction THEN entry.messageText ELSE report.getLastVisibleMessage

NO_ACTIVITY_YET == "report.noActivityYet"
BEGINNING_OF_CHAT_HISTORY == "reportActionsView.beginningOfChatHistory"

\* lines 336-426. A text is the sequence of its parts. The actions delivered
\* here are CREATED actions and comments, none pending deletion, so the tests of
\* lines 350-384 for other kinds of action are false; the reports are neither
\* policy expense chats, chat threads, task reports nor archived rooms.
alternateText(report, details, entry) ==
    LET lastActorDisplayName ==
            getLastActorDisplayName(details, hasMultipleParticipants(report))
        lastMessageText == report.getLastMessageTextForReport
        isThreadMessage ==
            /\ report.isThread
            /\ entry # UndefinedAction
            /\ entry.actionName = ADD_COMMENT
    IN  IF report.isChatRoom \/ isThreadMessage
        THEN IF lastActorDisplayName # "" /\ lastMessageText # ""
             THEN <<lastActorDisplayName, ": ", lastMessageText>>
             ELSE IF lastMessageText # "" THEN <<lastMessageText>>
             ELSE IF getLastVisibleMessage(report, entry) # ""
                  THEN <<getLastVisibleMessage(report, entry)>>
                  ELSE <<NO_ACTIVITY_YET>>
        ELSE IF report.isGroupChat /\ lastActorDisplayName # ""
             THEN <<lastActorDisplayName, ": ",
                    IF lastMessageText # "" THEN lastMessageText
                    ELSE BEGINNING_OF_CHAT_HISTORY>>
             ELSE <<IF lastMessageText # "" THEN lastMessageText
                    ELSE BEGINNING_OF_CHAT_HISTORY>>

\* line 267
hasErrors(allReportErrors) == allReportErrors # {}

\* lines 230-457, after the null check
optionDataOf(report, personalDetails, hasViolations, index) ==
    LET indicator == IF hasErrors(report.getAllReportErrors) \/ hasViolations
                     THEN ERROR ELSE ""
        joinRequest == report.isJoinRequestInAdminRoom
    IN  [reportID |-> report.reportID,
         allReportErrors |-> report.getAllReportErrors,
         brickRoadIndicator |-> IF joinRequest THEN INFO ELSE indicator,
         isPinned |-> IF joinRequest THEN TRUE ELSE report.isPinned,
         lastActorDetails |-> lastActorDetails(report, personalDetails, index),
         alternateText |-> alternateText(report,
                                         lastActorDetails(report, personalDetails, index),
                                         lastActionOf(report, index))]

getOptionDataReportOnlyChecked(report, personalDetails, hasViolations, index) ==
    IF report = NullReport
    THEN UndefinedOptionData
    ELSE optionDataOf(report, personalDetails, hasViolations, index)

getOptionData(report, personalDetails, hasViolations, index) ==
    IF report = NullReport \/ personalDetails = NullTable
    THEN UndefinedOptionData
    ELSE optionDataOf(report, personalDetails, hasViolations, index)

(***************************************************************************)
(* Inputs of getOrderedReportIDs                                           *)
(***************************************************************************)
ReportIDOfKey(k) == ToString(k)

\* a report that every filter keeps and that lands in the default bucket
PlainReport(id) ==
    [reportID |-> id,
     isPinned |-> FALSE,
     notificationPreference |-> ALWAYS,
     lastVisibleActionCreated |-> <<1>>,
     getReportName |-> 1,
     shouldShowViolations |-> FALSE,
     getAllReportErrors |-> {},
     isOneTransactionThread |-> FALSE,
     isSystemChat |-> FALSE,
     shouldReportBeInOptionList |-> TRUE,
     doesReportBelongToWorkspace |-> TRUE,
     requiresAttentionFromCurrentUser |-> FALSE,
     hasValidDraftComment |-> FALSE,
     isArchivedRoom |-> FALSE]

\* violations and errors: none, only the receipt-scan failure, another error
\* (alone or beside the receipt-scan failure), violations
ErrorCases ==
    {<<FALSE, {}>>, <<FALSE, {SmartscanFailure}>>,
     <<FALSE, {SmartscanFailure, OtherError}>>, <<TRUE, {}>>}

\* every combination of what the filtering reads
FilterReports ==
    {[PlainReport(id) EXCEPT
        !.isPinned = pinned,
        !.notificationPreference = pref,
        !.shouldShowViolations = err[1],
        !.getAllReportErrors = err[2],
        !.isOneTransactionThread = thread,
        !.isSystemChat = system,
        !.shouldReportBeInOptionList = inList,
        !.doesReportBelongToWorkspace = inWorkspace] :
        id \in {Undefined, "1", "2"}, pinned \in BOOLEAN, pref \in {HIDDEN, ALWAYS},
        err \in ErrorCases, thread \in BOOLEAN, system \in BOOLEAN,
        inList \in BOOLEAN, inWorkspace \in BOOLEAN}

\* the other reports of the collection while the last report ranges over
\* FilterReports: at an odd key no record, a report of the default bucket (with
\* an identifier, without one, outside the workspace); at an even key a report of
\* the errors, the drafts or the archived bucket
OtherReports(k) ==
    IF k % 2 = 1
    THEN {NullReport,
          PlainReport("1"),
          PlainReport(Undefined),
          [PlainReport("2") EXCEPT !.doesReportBelongToWorkspace = FALSE]}
    ELSE {[PlainReport("2") EXCEPT !.getAllReportErrors = {OtherError}],
          [PlainReport("2") EXCEPT !.hasValidDraftComment = TRUE],
          [PlainReport("2") EXCEPT !.isArchivedRoom = TRUE]}

\* reports of each bucket, under three pairs of display name and date
BucketReports ==
    {[PlainReport(Undefined) EXCEPT
        !.isPinned = flags[1],
        !.requiresAttentionFromCurrentUser = flags[2],
        !.hasValidDraftComment = flags[3],
        !.isArchivedRoom = flags[4],
        !.getAllReportErrors = IF flags[5] THEN {OtherError} ELSE {},
        !.getReportName = look[1],
        !.lastVisibleActionCreated = look[2]] :
        flags \in {<<TRUE, FALSE, FALSE, FALSE, FALSE>>,
                   <<FALSE, TRUE, TRUE, FALSE, FALSE>>,
                   <<FALSE, FALSE, TRUE, TRUE, TRUE>>,
                   <<FALSE, FALSE, FALSE, TRUE, TRUE>>,
                   <<FALSE, FALSE, FALSE, FALSE, TRUE>>,
                   <<FALSE, FALSE, FALSE, FALSE, FALSE>>},
        look \in {<<1, <<1>> >>, <<1, <<2>> >>, <<2, <<1>> >>}}

Dates == {NoStr, EmptyStr, <<1>>, <<1, 0>>}
Names == {0, 1, 2}

\* reports of the default bucket under every display name and date
SortReports ==
    {[PlainReport(Undefined) EXCEPT
        !.getReportName = name,
        !.lastVisibleActionCreated = date] :
        name \in Names, date \in Dates}

\* reports of the archived bucket under every display name and date
ArchivedReports ==
    {[PlainReport(Undefined) EXCEPT
        !.isArchivedRoom = TRUE,
        !.getReportName = name,
        !.lastVisibleActionCreated = date] :
        name \in Names, date \in Dates}

\* reports of the default and of the archived bucket under every display name
\* and two dates, one a proper prefix of the other
FocusReports ==
    {[PlainReport(Undefined) EXCEPT
        !.isArchivedRoom = archived,
        !.getReportName = name,
        !.lastVisibleActionCreated = date] :
        archived \in BOOLEAN, name \in Names, date \in {<<1>>, <<1, 0>>}}

\* currentPolicyID and policyMemberAccountIDs: not given, a policy, a member list
Scopes == {<<"", << >> >>, <<"policy1", << >> >>, <<"", <<7>> >>}

SortChoices == {c \in [Keys -> Keys] : \A i, j \in Keys : c[i] = c[j] => i = j}
IdentityChoice == [k \in Keys |-> k]

withKeysAsIDs(sel) == [k \in Keys |-> [sel[k] EXCEPT !.reportID = ReportIDOfKey(k)]]

(***************************************************************************)
(* Inputs of the callback and of getOptionData                             *)
(***************************************************************************)
ReportIDs == {"1", "2"}

\* the action created at a given time: a CREATED action, a comment that is not
\* visible as last action, a visible comment without or with an author name
ActionShapes == 1..4

actionOf(created, shape) ==
    [created |-> created,
     actionName |-> IF shape = 1 THEN CREATED ELSE ADD_COMMENT,
     shouldReportActionBeVisibleAsLastAction |-> shape # 2,
     personText |-> IF shape = 3 THEN NoPersonText ELSE "Alice",
     messageText |-> "comment"]

\* the collections of at most MaxActions actions, one per creation time
ActionCollections ==
    {[values |-> {actionOf(c, shapes[c]) : c \in {t \in 1..MaxActions : shapes[t] # 0}}] :
        shapes \in [1..MaxActions -> {0} \cup ActionShapes]}

\* (actions, key): every collection or none under the key of a report, and a
\* collection without a key
CallbackInputs ==
    ((ActionCollections \cup {NullActions}) \X ReportIDs)
        \cup {<<[values |-> {actionOf(1, 4)}], Null>>}

\* a one-to-one chat without errors, last actor or last message
PlainOptionReport(id) ==
    [reportID |-> id,
     isPinned |-> FALSE,
     lastActorAccountID |-> 0,
     getAllReportErrors |-> {},
     isJoinRequestInAdminRoom |-> FALSE,
     participants |-> 1,
     isChatRoom |-> FALSE,
     isThread |-> FALSE,
     isGroupChat |-> FALSE,
     getLastMessageTextForReport |-> "",
     getLastVisibleMessage |-> ""]

DM == "dm"
GROUP == "group"
ROOM == "room"
THREAD == "thread"

\* reports under every combination of what the indicator reads
IndicatorReports ==
    {[PlainOptionReport("1") EXCEPT
        !.getAllReportErrors = errors,
        !.isJoinRequestInAdminRoom = joinRequest] :
        errors \in {{}, {SmartscanFailure}, {SmartscanFailure, OtherError}},
        joinRequest \in BOOLEAN}

\* reports of each kind under every combination of what the last actor and the
\* alternate text read
ActorReports ==
    {[PlainOptionReport(id) EXCEPT
        !.lastActorAccountID = actor,
        !.participants = IF kind = GROUP THEN 2 ELSE 1,
        !.isChatRoom = (kind = ROOM),
        !.isThread = (kind = THREAD),
        !.isGroupChat = (kind = GROUP),
        !.getLastMessageTextForReport = text] :
        id \in ReportIDs, actor \in {0, 1}, kind \in {DM, GROUP, ROOM, THREAD},
        text \in {"", "hello"}}

\* personalDetails: empty, holding the details of account 1
NoDetailsTable == [accountIDs |-> {}]
DetailsTable == [accountIDs |-> {1}]

\* the arguments of a call: the indicator reports with and without violations,
\* the reports of each kind with and without the details of the last actor,
\* and a report or none with a personalDetails table or none
OptionCalls ==
    {[report |-> report, personalDetails |-> NoDetailsTable, hasViolations |-> violations] :
        report \in IndicatorReports, violations \in BOOLEAN}
    \cup
    {[report |-> report, personalDetails |-> table, hasViolations |-> FALSE] :
        report \in ActorReports, table \in {NoDetailsTable, DetailsTable}}
    \cup
    {[report |-> report, personalDetails |-> table, hasViolations |-> FALSE] :
        report \in {NullReport, PlainOptionReport("1")},
        table \in {NullTable, NoDetailsTable}}

NoOptionCall == [called |-> FALSE]

InitOutputs ==
    /\ sortChoice = IdentityChoice
    /\ sortedMiniReports = << >>
    /\ LHNReports = << >>
    /\ returned = FALSE
    /\ visibleReportActionItems = [id \in ReportIDs |-> UndefinedAction]
    /\ optionArgs = NoOptionCall
    /\ lastAction = UndefinedAction
    /\ optionData = NoOptionCall

InitFilter ==
    /\ \E subject \in FilterReports :
       \E others \in {o \in [Keys \ {MaxReports} ->
                                UNION {OtherReports(k) : k \in Keys \ {MaxReports}}] :
                         \A k \in Keys \ {MaxReports} : o[k] \in OtherReports(k)} :
          allReports = [k \in Keys |-> IF k = MaxReports THEN subject ELSE others[k]]
    /\ currentReportId \in {Null, "1"}
    /\ priorityMode = DEFAULT_MODE
    /\ \E scope \in Scopes : currentPolicyID = scope[1] /\ policyMemberAccountIDs = scope[2]
    /\ InitOutputs

InitBuckets ==
    /\ \E sel \in [Keys -> BucketReports] : allReports = withKeysAsIDs(sel)
    /\ currentReportId = Null
    /\ priorityMode \in {DEFAULT_MODE, GSD}
    /\ currentPolicyID = "" /\ policyMemberAccountIDs = << >>
    /\ InitOutputs

InitSort ==
    /\ \E sel \in [Keys -> SortReports] : allReports = withKeysAsIDs(sel)
    /\ currentReportId = Null
    /\ priorityMode = DEFAULT_MODE
    /\ currentPolicyID = "" /\ policyMemberAccountIDs = << >>
    /\ InitOutputs

InitArchived ==
    /\ \E sel \in [Keys -> ArchivedReports] : allReports = withKeysAsIDs(sel)
    /\ currentReportId = Null
    /\ priorityMode = DEFAULT_MODE
    /\ currentPolicyID = "" /\ policyMemberAccountIDs = << >>
    /\ InitOutputs

InitFocus ==
    /\ \E sel \in [Keys -> FocusReports] : allReports = withKeysAsIDs(sel)
    /\ currentReportId = Null
    /\ priorityMode = GSD
    /\ currentPolicyID = "" /\ policyMemberAccountIDs = << >>
    /\ InitOutputs

(***************************************************************************)
(* A call of getOrderedReportIDs with the arguments of the state           *)
(***************************************************************************)
\* the orders the engine may give: any order of the reports whose bucket is
\* sorted with an inconsistent comparator, the others staying in place
sortChoices(entries, mode) ==
    LET movable == {entries[i].key : i \in {j \in 1..Len(entries) :
                        ~ConsistentComparator(bucket(entries, bucketOf(entries[j])),
                                              comparatorOf(bucketOf(entries[j]), mode))}}
    IN  {c \in SortChoices : \A k \in Keys \ movable : c[k] = k}

CallGetOrderedReportIDs ==
    /\ ~returned
    /\ LET entries == reportsToDisplay(allReports, currentReportId, currentPolicyID,
                                       policyMemberAccountIDs)
       IN  \E choice \in IF AllComparatorsConsistent(entries, priorityMode)
                         THEN {IdentityChoice} ELSE sortChoices(entries, priorityMode) :
              /\ sortChoice' = choice
              /\ sortedMiniReports' = concatenated(entries, priorityMode, choice)
              /\ LHNReports' = toReportIDs(sortedMiniReports')
    /\ returned' = TRUE
    /\ UNCHANGED <<allReports, currentReportId, priorityMode, currentPolicyID,
                   policyMemberAccountIDs>>
    /\ UNCHANGED optionVars

(***************************************************************************)
(* The subscription callback fires with an action collection and its key   *)
(***************************************************************************)
ReportActionsCallback ==
    /\ \E input \in CallbackInputs :
          visibleReportActionItems' = callback(visibleReportActionItems, input[1], input[2])
    /\ UNCHANGED <<optionArgs, lastAction, optionData>>
    /\ UNCHANGED orderVars

(***************************************************************************)
(* A call of getOptionData                                                 *)
(***************************************************************************)
CallGetOptionData ==
    /\ \E call \in OptionCalls :
          /\ optionArgs' = [called |-> TRUE,
                            report |-> call.report,
                            personalDetails |-> call.personalDetails,
                            hasViolations |-> call.hasViolations]
          /\ lastAction' = IF call.report = NullReport \/ call.personalDetails = NullTable
                            THEN UndefinedAction
                            ELSE visibleReportActionItems[call.report.reportID]
          /\ optionData' = getOptionData(call.report, call.personalDetails,
                                         call.hasViolations, visibleReportActionItems)
    /\ UNCHANGED visibleReportActionItems
    /\ UNCHANGED orderVars

Init ==
    /\ allReports = [k \in Keys |-> PlainReport(ReportIDOfKey(k))]
    /\ currentReportId = Null
    /\ priorityMode = DEFAULT_MODE
    /\ currentPolicyID = "" /\ policyMemberAccountIDs = << >>
    /\ InitOutputs

Next ==
    \/ CallGetOrderedReportIDs
    \/ ReportActionsCallback
    \/ CallGetOptionData

Spec == Init /\ [][Next]_vars

NextOption ==
    \/ ReportActionsCallback
    \/ CallGetOptionData

SpecOption == Init /\ [][NextOption]_vars

NextOrder == CallGetOrderedReportIDs

SpecFilter == InitFilter /\ [][NextOrder]_vars
SpecBuckets == InitBuckets /\ [][NextOrder]_vars
SpecSort == InitSort /\ [][NextOrder]_vars
SpecFocus == InitFocus /\ [][NextOrder]_vars
SpecArchived == InitArchived /\ [][NextOrder]_vars

(***************************************************************************)
(* Vocabulary of the properties                                            *)
(***************************************************************************)
\* the collection key of the record behind each element of the output
OutputKeys == [i \in 1..Len(sortedMiniReports) |-> sortedMiniReports[i].key]

InOutput(k) == \E i \in 1..Len(OutputKeys) : OutputKeys[i] = k

PositionOf(k) == CHOOSE i \in 1..Len(OutputKeys) : OutputKeys[i] = k

Precedes(a, b) == InOutput(a) /\ InOutput(b) /\ PositionOf(a) < PositionOf(b)

Present(k) == allReports[k] # NullReport

\* violations, or an error other than the receipt-scan failure
ErrorFlag(k) ==
    \/ allReports[k].shouldShowViolations
    \/ allReports[k].getAllReportErrors \ {SmartscanFailure} # {}

Focused(k) == allReports[k].reportID = currentReportId

ScopeSupplied == currentPolicyID # "" \/ policyMemberAccountIDs # << >>

\* the report survives step 1 (the filtering of lines 86-127)
SurvivesFiltering(k) == disposition(allReports[k], currentReportId) # DROP

BucketOfKey(k) == bucketOf(displayEntry(allReports, k, currentReportId))

BucketRank(name) ==
    CASE name = PINNED_AND_GBR -> 1
      [] name = ERRORS -> 2
      [] name = DRAFTS -> 3
      [] name = NON_ARCHIVED -> 4
      [] name = ARCHIVED -> 5

Occurrences(id) == Cardinality({i \in 1..Len(LHNReports) : LHNReports[i] = id})

\* the input records that carry the identifier (for the sentinel: that lack one)
Carriers(id) ==
    {k \in Keys : Present(k) /\ allReports[k].reportID =
                                    (IF id = SENTINEL THEN Undefined ELSE id)}

(***************************************************************************)
(* C1 (as stated): the output has no duplicate identifiers, and every      *)
(* element is a reportID of an input report or the sentinel "-1".          *)
(***************************************************************************)
C1_NoDuplicates ==
    returned =>
        /\ \A i, j \in 1..Len(LHNReports) : LHNReports[i] = LHNReports[j] => i = j
        /\ \A i \in 1..Len(LHNReports) :
              /\ LHNReports[i] # Undefined
              /\ Carriers(LHNReports[i]) # {}

(***************************************************************************)
(* C1 (amended): every element of the output is a reportID of an input     *)
(* report or the sentinel "-1" (and "-1" only when an input record lacks a *)
(* reportID), and an identifier occurs in the output at most as often as   *)
(* there are input records that carry it; so the output is free of         *)
(* duplicates when the input records carry pairwise distinct reportIDs and *)
(* at most one of them lacks a reportID.                                   *)
(***************************************************************************)
C1_AtMostOncePerRecord ==
    returned =>
        /\ Len(LHNReports) = Len(OutputKeys)
        /\ \A i \in 1..Len(LHNReports) :
              /\ LHNReports[i] # Undefined
              /\ Carriers(LHNReports[i]) # {}
              /\ OutputKeys[i] \in Carriers(LHNReports[i])
              /\ Occurrences(LHNReports[i]) <= Cardinality(Carriers(LHNReports[i]))
        /\ (\A a, b \in Keys :
                Present(a) /\ Present(b) /\ allReports[a].reportID = allReports[b].reportID
                    => a = b)
            => \A i, j \in 1..Len(LHNReports) : LHNReports[i] = LHNReports[j] => i = j

\* a call that returned the sentinel twice
C1_Witness ==
    /\ returned
    /\ Occurrences(SENTINEL) >= 2
    /\ \E i \in 1..Len(LHNReports) : LHNReports[i] \notin {SENTINEL, Undefined}

(***************************************************************************)
(* C6: a report whose notificationPreference is "hidden" is in the output  *)
(* only if it carries the error flag, is the focused report, is the        *)
(* system chat, or is pinned.                                              *)
(***************************************************************************)
C6_HiddenNeedsOverride ==
    returned =>
        \A k \in Keys :
            Present(k) /\ allReports[k].notificationPreference = HIDDEN /\ InOutput(k)
                => \/ ErrorFlag(k)
                   \/ Focused(k)
                   \/ allReports[k].isSystemChat
                   \/ allReports[k].isPinned

\* a hidden report in the output for the sole reason that it is the system chat
C6_Witness ==
    /\ returned
    /\ \E k \in Keys :
          /\ Present(k) /\ allReports[k].notificationPreference = HIDDEN /\ InOutput(k)
          /\ allReports[k].isSystemChat
          /\ ~ErrorFlag(k) /\ ~Focused(k) /\ ~allReports[k].isPinned

(***************************************************************************)
(* C7 (as stated): a pinned, hidden report that is not the focused report  *)
(* is in the output, before every report of the errors, drafts, default    *)
(* and archived buckets.                                                   *)
(***************************************************************************)
C7_PinnedHiddenRetained ==
    returned =>
        \A k \in Keys :
            /\ Present(k)
            /\ allReports[k].isPinned
            /\ allReports[k].notificationPreference = HIDDEN
            /\ ~Focused(k)
            => /\ InOutput(k)
               /\ \A o \in Keys :
                     InOutput(o) /\ BucketOfKey(o) # PINNED_AND_GBR => Precedes(k, o)

(***************************************************************************)
(* C7 (amended): a pinned, hidden report that is not the focused report is *)
(* not dropped for being hidden: it is in the output whenever it is not a  *)
(* one-transaction thread, it carries the error flag or passes             *)
(* shouldReportBeInOptionList, and, with a workspace scope supplied, it    *)
(* belongs to the workspace; it is then in the pinned/GBR bucket, before   *)
(* every report of the errors, drafts, default and archived buckets.       *)
(***************************************************************************)
C7_PinnedHiddenRetainedWhenListed ==
    returned =>
        \A k \in Keys :
            /\ Present(k)
            /\ allReports[k].isPinned
            /\ allReports[k].notificationPreference = HIDDEN
            /\ ~Focused(k)
            /\ ~allReports[k].isOneTransactionThread
            /\ (ErrorFlag(k) \/ allReports[k].shouldReportBeInOptionList)
            /\ (ScopeSupplied => allReports[k].doesReportBelongToWorkspace)
            => /\ InOutput(k)
               /\ BucketOfKey(k) = PINNED_AND_GBR
               /\ \A o \in Keys :
                     InOutput(o) /\ BucketOfKey(o) # PINNED_AND_GBR => Precedes(k, o)

\* such a report, kept for the sole reason that it is pinned, ahead of a report
\* of another bucket that comes before it in the collection
C7_Witness ==
    /\ returned
    /\ \E k \in Keys :
          /\ Present(k)
          /\ allReports[k].isPinned
          /\ allReports[k].notificationPreference = HIDDEN
          /\ ~Focused(k) /\ ~ErrorFlag(k) /\ ~allReports[k].isSystemChat
          /\ InOutput(k)
          /\ \E o \in Keys :
                o < k /\ Present(o) /\ BucketOfKey(o) # PINNED_AND_GBR /\ Precedes(k, o)

(***************************************************************************)
(* C8 (as stated): every report in the output, a report with the error     *)
(* flag included, satisfies ReportUtils.shouldReportBeInOptionList.        *)
(***************************************************************************)
C8_OutputInOptionList ==
    returned =>
        \A k \in Keys : InOutput(k) => allReports[k].shouldReportBeInOptionList

(***************************************************************************)
(* C8 (amended): every report in the output that does not carry the error  *)
(* flag satisfies ReportUtils.shouldReportBeInOptionList; a report that    *)
(* carries the error flag is kept by the filtering without the predicate   *)
(* being consulted, whatever it would answer.                              *)
(***************************************************************************)
C8_OutputInOptionListUnlessError ==
    returned =>
        /\ \A k \in Keys :
              InOutput(k) /\ ~ErrorFlag(k) => allReports[k].shouldReportBeInOptionList
        /\ \A k \in Keys :
              /\ Present(k) /\ ErrorFlag(k)
              /\ ~allReports[k].isOneTransactionThread
              /\ (ScopeSupplied => Focused(k) \/ allReports[k].doesReportBelongToWorkspace)
              => InOutput(k)

\* a report with the error flag in the output although the predicate rejects it,
\* beside a report without the flag that the predicate admitted
C8_Witness ==
    /\ returned
    /\ \E k \in Keys :
          InOutput(k) /\ ErrorFlag(k) /\ ~allReports[k].shouldReportBeInOptionList
    /\ \E k \in Keys : InOutput(k) /\ ~ErrorFlag(k)

(***************************************************************************)
(* C9 (as stated): with a workspace scope supplied, every report in the    *)
(* output belongs to the workspace or is the focused report, and the       *)
(* focused report is always in the output; with no scope supplied the      *)
(* workspace restriction removes nothing.                                  *)
(***************************************************************************)
C9_FocusedAlwaysRetained ==
    returned =>
        /\ ScopeSupplied =>
              /\ \A k \in Keys :
                    InOutput(k) => allReports[k].doesReportBelongToWorkspace \/ Focused(k)
              /\ \A k \in Keys : Present(k) /\ Focused(k) => InOutput(k)
        /\ ~ScopeSupplied => \A k \in Keys : SurvivesFiltering(k) => InOutput(k)

(***************************************************************************)
(* C9 (amended): with a workspace scope supplied, every report in the      *)
(* output belongs to the workspace or is the focused report, and the       *)
(* workspace restriction never removes the focused report: it is in the    *)
(* output whenever it survives the filtering that precedes the restriction;*)
(* with no scope supplied the restriction removes nothing.                 *)
(***************************************************************************)
C9_FocusedRetainedByRestriction ==
    returned =>
        /\ ScopeSupplied =>
              /\ \A k \in Keys :
                    InOutput(k) => allReports[k].doesReportBelongToWorkspace \/ Focused(k)
              /\ \A k \in Keys : SurvivesFiltering(k) /\ Focused(k) => InOutput(k)
        /\ ~ScopeSupplied => \A k \in Keys : SurvivesFiltering(k) => InOutput(k)
        /\ \A k \in Keys : InOutput(k) => SurvivesFiltering(k)

\* with a scope supplied, the focused report is kept though it is outside the
\* workspace, and another report outside the workspace is removed
C9_Witness ==
    /\ returned
    /\ ScopeSupplied
    /\ \E k \in Keys :
          InOutput(k) /\ Focused(k) /\ ~allReports[k].doesReportBelongToWorkspace
    /\ \E k \in Keys :
          SurvivesFiltering(k) /\ ~Focused(k) /\ ~InOutput(k)

(***************************************************************************)
(* C2: in the output, in both priority modes, the reports of the           *)
(* pinned/GBR bucket precede those of the errors bucket, which precede     *)
(* those of the drafts bucket, which precede those of the default bucket,  *)
(* which precede those of the archived bucket, whatever their dates and    *)
(* display names.                                                          *)
(***************************************************************************)
KeyOfReportID(id) == CHOOSE k \in Keys : Present(k) /\ allReports[k].reportID = id

DateString(k) ==
    IF allReports[k].lastVisibleActionCreated = NoStr
    THEN EmptyStr ELSE allReports[k].lastVisibleActionCreated

InDefaultBucket(k) == InOutput(k) /\ BucketOfKey(k) = NON_ARCHIVED

C3_DateOrder ==
    returned /\ priorityMode # GSD =>
        \A a, b \in Keys :
            InDefaultBucket(a) /\ InDefaultBucket(b) /\ DateString(a) # DateString(b)
                => (Precedes(a, b) <=> StrLess(DateString(b), DateString(a)))

(***************************************************************************)
(* C3 (amended): in most-recent mode, when every report of the default     *)
(* bucket has a non-empty date and a non-empty display name, for two       *)
(* reports A and B of the bucket with distinct dates, A precedes B iff A's *)
(* date is lexicographically greater. A missing or empty date compares     *)
(* equal to every date, so such a report is placed by display name.        *)
(***************************************************************************)
C3_DateOrderOfDatedReports ==
    returned /\ priorityMode # GSD
             /\ (\A k \in Keys : InDefaultBucket(k) =>
                    /\ Truthy(allReports[k].lastVisibleActionCreated)
                    /\ allReports[k].getReportName # 0) =>
        \A a, b \in Keys :
            InDefaultBucket(a) /\ InDefaultBucket(b) /\ DateString(a) # DateString(b)
                => (Precedes(a, b) <=> StrLess(DateString(b), DateString(a)))

\* three dated, named reports of the default bucket; the most recent one is last
\* in the collection, has the greatest display name, and is first in the output
C3_Witness ==
    /\ returned /\ priorityMode # GSD
    /\ \A k \in Keys : InDefaultBucket(k) /\ Truthy(allReports[k].lastVisibleActionCreated)
                                          /\ allReports[k].getReportName # 0
    /\ \E a, b \in Keys :
          /\ a > b /\ Precedes(a, b)
          /\ StrLess(DateString(b), DateString(a))
          /\ allReports[a].getReportName > allReports[b].getReportName

(***************************************************************************)
(* C4: in focus mode (GSD) the default and the archived bucket are ordered *)
(* by display name only: replacing the lastVisibleActionCreated of any     *)
(* report, all else fixed, leaves the output unchanged, and two reports of *)
(* one of these buckets whose reports all have a display name are in       *)
(* display-name order.                                                     *)
(***************************************************************************)
withDate(k, date) == [allReports EXCEPT ![k].lastVisibleActionCreated = date]

C4_FocusModeIgnoresDates ==
    returned /\ priorityMode = GSD =>
        /\ \A k \in Keys : \A date \in Dates \ {allReports[k].lastVisibleActionCreated} :
              getOrderedReportIDs(withDate(k, date), currentReportId, priorityMode,
                                  currentPolicyID, policyMemberAccountIDs, sortChoice)
                  = LHNReports
        /\ \A a, b \in Keys :
              /\ InOutput(a) /\ InOutput(b)
              /\ BucketOfKey(a) = BucketOfKey(b)
              /\ BucketOfKey(a) \in {NON_ARCHIVED, ARCHIVED}
              /\ \A k \in Keys :
                    InOutput(k) /\ BucketOfKey(k) = BucketOfKey(a)
                        => allReports[k].getReportName # 0
              /\ allReports[a].getReportName < allReports[b].getReportName
              => Precedes(a, b)

\* focus mode: an archived report precedes a more recent archived report, and a
\* default-bucket report precedes a more recent one, by display name
C4_Witness ==
    /\ returned /\ priorityMode = GSD
    /\ \E a, b \in Keys :
          /\ Precedes(a, b) /\ a > b
          /\ BucketOfKey(a) = BucketOfKey(b)
          /\ Truthy(allReports[a].lastVisibleActionCreated)
          /\ StrLess(allReports[a].lastVisibleActionCreated,
                     allReports[b].lastVisibleActionCreated)
          /\ allReports[a].getReportName # 0
          /\ allReports[a].getReportName < allReports[b].getReportName

(***************************************************************************)
(* C5: getOptionData returns a defined record if and only if both the      *)
(* report and the personalDetails table are present; a call, whatever it   *)
(* returns, leaves the side index as it was.                               *)
(***************************************************************************)
C5_DefinedIffInputsPresent ==
    /\ [](optionArgs.called =>
            (optionData # UndefinedOptionData
                <=> optionArgs.report # NullReport /\ optionArgs.personalDetails # NullTable))
    /\ [][optionArgs' # optionArgs \/ optionData' # optionData
            => visibleReportActionItems' = visibleReportActionItems]_vars

\* a call without personalDetails returned the empty result while the side
\* index held an entry for the report
C5_Witness ==
    /\ optionArgs.called
    /\ optionArgs.report # NullReport
    /\ optionArgs.personalDetails = NullTable
    /\ optionData = UndefinedOptionData
    /\ visibleReportActionItems[optionArgs.report.reportID] # UndefinedAction

(***************************************************************************)
(* C10: for a report that is not a join request in an admin room,          *)
(* brickRoadIndicator is the error status if and only if the report has an *)
(* error other than the receipt-scan failure or hasViolations is true.     *)
(***************************************************************************)
C10_IndicatorIgnoresScanFailure ==
    /\ optionArgs.called
    /\ optionData # UndefinedOptionData
    /\ ~optionArgs.report.isJoinRequestInAdminRoom
    => (optionData.brickRoadIndicator = ERROR
            <=> \/ optionArgs.report.getAllReportErrors \ {SmartscanFailure} # {}
                \/ optionArgs.hasViolations)

(***************************************************************************)
(* C11 (as stated): a getOptionData call with the arguments of the call    *)
(* before it returns the record that call returned, whatever callbacks ran *)
(* between the two.                                                        *)
(***************************************************************************)
C11_PureInArguments ==
    [][optionArgs.called /\ optionArgs' = optionArgs => optionData' = optionData]_vars

(***************************************************************************)
(* C11 (amended): a getOptionData call with the arguments of the call      *)
(* before it returns the record that call returned, alternateText          *)
(* included, when it reads from the side index the entry that call read:   *)
(* the result is a function of the arguments and of                        *)
(* visibleReportActionItems[report.reportID].                              *)
(***************************************************************************)
C11_PureInArgumentsAndEntry ==
    [][optionArgs.called /\ optionArgs' = optionArgs /\ lastAction' = lastAction
            => optionData' = optionData]_vars

\* after a call for a chat room whose last actor and alternate text came from
\* the side index, callbacks have run for the other report and for this one,
\* and the entry of this report is again the one the call read
C11_Witness ==
    /\ optionArgs.called
    /\ optionData # UndefinedOptionData
    /\ optionArgs.report.isChatRoom
    /\ lastAction # UndefinedAction
    /\ optionData.lastActorDetails # NullDetails
    /\ optionData.lastActorDetails.displayName = lastAction.personText
    /\ optionData.alternateText = <<lastAction.personText, ": ", "hello">>
    /\ visibleReportActionItems[optionArgs.report.reportID] = lastAction
    /\ \E id \in ReportIDs :
          /\ id # optionArgs.report.reportID
          /\ visibleReportActionItems[id] # UndefinedAction

(***************************************************************************)
(* C12: a report that survives filtering is put in exactly one bucket, the *)
(* first that matches in the order pinned or requires attention, valid     *)
(* draft comment, archived, error flag, default; so a report with the      *)
(* error flag and a draft is in the drafts bucket, one that is archived in *)
(* the archived bucket, and the output places each report by that bucket.  *)
(***************************************************************************)
FirstMatchingBucket(k) ==
    CASE allReports[k].isPinned \/ allReports[k].requiresAttentionFromCurrentUser
            -> PINNED_AND_GBR
      [] OTHER ->
    CASE allReports[k].hasValidDraftComment -> DRAFTS
      [] OTHER ->
    CASE allReports[k].isArchivedRoom -> ARCHIVED
      [] OTHER ->
    CASE ErrorFlag(k) -> ERRORS
      [] OTHER -> NON_ARCHIVED

\* the buckets that hold the record of key k after the forEach of line 151
BucketsHolding(k) ==
    LET entries == reportsToDisplay(allReports, currentReportId, currentPolicyID,
                                    policyMemberAccountIDs)
    IN  {name \in {PINNED_AND_GBR, ERRORS, DRAFTS, NON_ARCHIVED, ARCHIVED} :
            \E i \in 1..Len(bucket(entries, name)) : bucket(entries, name)[i].key = k}

InArchivedBucket(k) == InOutput(k) /\ BucketOfKey(k) = ARCHIVED

C13_ArchivedTiesByName ==
    returned /\ priorityMode # GSD =>
        \A a, b \in Keys :
            /\ InArchivedBucket(a) /\ InArchivedBucket(b)
            /\ Truthy(DateString(a)) /\ DateString(a) = DateString(b)
            /\ allReports[a].getReportName # 0
            /\ allReports[a].getReportName < allReports[b].getReportName
            => Precedes(a, b)

(***************************************************************************)
(* C13 (amended): in most-recent mode, when every archived report has a    *)
(* non-empty timestamp, the archived bucket is sorted by                   *)
(* lastVisibleActionCreated descending and two archived reports with equal *)
(* timestamps keep the order they have in the input collection, whatever   *)
(* their display names.                                                    *)
(***************************************************************************)
C13_ArchivedTiesByInputOrder ==
    returned /\ priorityMode # GSD
             /\ (\A k \in Keys : InArchivedBucket(k) => Truthy(DateString(k))) =>
        \A a, b \in Keys :
            InArchivedBucket(a) /\ InArchivedBucket(b) =>
                /\ StrLess(DateString(b), DateString(a)) => Precedes(a, b)
                /\ DateString(a) = DateString(b) /\ a < b => Precedes(a, b)

\* two archived reports with the same timestamp stand in input order against
\* their display names, behind a more recent archived report
C13_Witness ==
    /\ returned /\ priorityMode # GSD
    /\ \E a, b, c \in Keys :
          /\ InArchivedBucket(a) /\ InArchivedBucket(b) /\ InArchivedBucket(c)
          /\ Precedes(c, a) /\ Precedes(a, b)
          /\ a < b /\ b < c
          /\ Truthy(DateString(a)) /\ DateString(a) = DateString(b)
          /\ StrLess(DateString(a), DateString(c))
          /\ allReports[b].getReportName # 0
          /\ allReports[b].getReportName < allReports[a].getReportName

(***************************************************************************)
(* C14: whatever the side index holds, a callback that delivers an action  *)
(* collection for report R leaves as the entry of R the most recent action *)
(* of that collection that is visible as last action and is not a CREATED  *)
(* action, and undefined when the collection has none, is empty or is      *)
(* absent; the entry of every other report stays as it was.                *)
(***************************************************************************)
MostRecentDisplayable(actions) ==
    LET displayable ==
            IF actions = NullActions THEN {}
            ELSE {a \in actions.values :
                    a.shouldReportActionBeVisibleAsLastAction /\ a.actionName # CREATED}
    IN  IF displayable = {} THEN UndefinedAction
        ELSE CHOOSE a \in displayable : \A b \in displayable : b.created <= a.created

C14_EntryIsLastDelivered ==
    \A input \in CallbackInputs :
        LET after == callback(visibleReportActionItems, input[1], input[2])
        IN  \A R \in ReportIDs :
                IF input[2] = R
                THEN after[R] = MostRecentDisplayable(input[1])
                ELSE after[R] = visibleReportActionItems[R]

(***************************************************************************)
(* C15: the last actor of a getOptionData call is the personal-details     *)
(* record of report.lastActorAccountID whenever the table holds one,       *)
(* whatever entry the side index has for the report; without such a record *)
(* it carries the author name of the side-index entry of the report, and   *)
(* there is no last actor when that entry is missing or has no author name.*)
(***************************************************************************)
LiveRecordExists ==
    /\ optionArgs.report.lastActorAccountID # 0
    /\ optionArgs.report.lastActorAccountID \in optionArgs.personalDetails.accountIDs

C15_LastActorPrefersLiveRecord ==
    optionArgs.called /\ optionData # UndefinedOptionData =>
        IF LiveRecordExists
        THEN /\ optionData.lastActorDetails # NullDetails
             /\ optionData.lastActorDetails =
                    personalDetailOf(optionArgs.personalDetails,
                                     optionArgs.report.lastActorAccountID)
        ELSE IF lastAction # UndefinedAction /\ lastAction.personText # NoPersonText
             THEN optionData.lastActorDetails =
                    [displayName |-> lastAction.personText,
                     accountID |-> optionArgs.report.lastActorAccountID]
             ELSE optionData.lastActorDetails = NullDetails

\* a call found the live record of the last actor while the side index held an
\* entry with another author name for the report
C15_Witness ==
    /\ optionArgs.called /\ optionData # UndefinedOptionData
    /\ LiveRecordExists
    /\ lastAction # UndefinedAction
    /\ lastAction.personText # NoPersonText
    /\ optionData.lastActorDetails.displayName # lastAction.personText
    /\ optionData.lastActorDetails.accountID = optionArgs.report.lastActorAccountID

(***************************************************************************)
(* C16: the output has one element for each report that passes the         *)
(* filtering and the workspace restriction and no other element: its       *)
(* length is the number of those reports, each of them stands at exactly   *)
(* one position, with its reportID or "-1"; and the call leaves the input  *)
(* collection and its records as they were.                                *)
(***************************************************************************)
SurvivesRestriction(k) ==
    ScopeSupplied => Focused(k) \/ allReports[k].doesReportBelongToWorkspace

Survivors == {k \in Keys : SurvivesFiltering(k) /\ SurvivesRestriction(k)}

C16_OneElementPerSurvivor ==
    /\ [](returned =>
            /\ Len(LHNReports) = Cardinality(Survivors)
            /\ \A k \in Survivors :
                  /\ Cardinality({i \in 1..Len(OutputKeys) : OutputKeys[i] = k}) = 1
                  /\ LHNReports[PositionOf(k)] =
                        (IF allReports[k].reportID = Undefined
                         THEN SENTINEL ELSE allReports[k].reportID)
            /\ \A k \in Keys \ Survivors : ~InOutput(k))
    /\ [][allReports' = allReports]_vars

\* a call kept a report without reportID and another report, and dropped one
\* report in the filtering and one in the workspace restriction
C16_Witness ==
    /\ returned
    /\ Len(LHNReports) >= 2
    /\ \E i \in 1..Len(LHNReports) : LHNReports[i] = SENTINEL
    /\ \E k \in Keys : Present(k) /\ SurvivesFiltering(k) /\ ~SurvivesRestriction(k)

====
